---- MODULE Spec2Model ----
(***************************************************************************)
(* llmp: the per-query context-assembly pipeline (LLMP.handleQuery) and    *)
(* the per-user fact memory (CloudflareKVFacts) over a relational message  *)
(* store (D1), a vector index (Vectorize) and a blob store (KV).           *)
(*                                                                         *)
(* Every await of the source is one step of a call: a request to a         *)
(* backend, which either answers or fails.  Scores are cosine similarities *)
(* in hundredths (0.9 is 90).                                              *)
(***************************************************************************)
EXTENDS Integers, Sequences, FiniteSets, TLC

VARIABLES
  messages,     \* the D1 table `messages`: a sequence of rows, in rowid order
  vectorIndex,  \* the Vectorize index: a set of vectors [id, namespace, values]
  kv,           \* the KV namespace: key -> serialized fact list, or NoBlob
  calls,        \* per caller slot: the call in flight (or the last one) and its locals
  hist          \* the calls that have completed, in completion order

vars == <<messages, vectorIndex, kv, calls, hist>>

(***************************** bounds and constants ************************)

MaxCalls == 2               \* calls started in one behaviour of Spec, SpecIndex
MaxFactCalls == 3           \* calls started in one behaviour of SpecFacts
MaxExtractCalls == 2        \* calls started in one behaviour of SpecExtract
MaxUserCalls == 3           \* calls started in one behaviour of SpecUsers
MaxRaceCalls == 2           \* calls started in one behaviour of SpecRace
MaxQueryCalls == 2          \* calls started in one behaviour of SpecQueries
MaxRagCalls == 3            \* calls started in one behaviour of SpecRag
Threshold == 90             \* updateFacts: resp.matches[0].score > 0.9
DefaultMessageLimit == 10   \* Memory: messageLimit = 10
TopK == 5                   \* handleQuery: retrieveRelevantTexts(embedding, 5)

Procs == {1, 2}
Users == {"u1", "u2"}
FactTexts == {"a", "b", "c", "d"}
QueryTexts == {"a", "b"}
Replies == {"r1", "r2"}
\* texts the fact-extraction backend answers with
ResponseTexts ==
  {<<>>, <<"a">>, <<"a", "\n", "c">>, <<" a ", "\n", "\n", "b">>,
   <<"c", "\n", " ", "\n", "a">>, <<"a", "\n", "a">>}
MessageLimits == {1, DefaultMessageLimit}
NoLimit == 0                \* no messageLimit given to the Memory
RagIds == {"1", "2", "3"}
RaceTexts == {"a", "b", "c"}

NoBlob == [present |-> FALSE, json |-> <<>>]
NoVec == [of |-> "undefined"]
NoPrefs == "undefined"
NoResult == "noresult"
NL == "\n"

(***************************** pure helpers ********************************)

Range(s) == {s[i] : i \in 1..Len(s)}

Min(a, b) == IF a < b THEN a ELSE b

Digit(n) == CASE n = 0 -> "0" [] n = 1 -> "1" [] n = 2 -> "2" [] n = 3 -> "3"
              [] n = 4 -> "4" [] n = 5 -> "5" [] n = 6 -> "6" [] n = 7 -> "7"
              [] n = 8 -> "8" [] n = 9 -> "9"

\* Number.prototype.toString of a positive integer
RECURSIVE ToStr(_)
ToStr(n) == IF n < 10 THEN Digit(n) ELSE ToStr(n \div 10) \o Digit(n % 10)

\* Array.prototype.join('\n'): a string is the sequence of its lines' texts
\* with the separators between them
RECURSIVE Join(_)
Join(s) == IF Len(s) = 0 THEN <<>>
           ELSE IF Len(s) = 1 THEN <<s[1]>>
           ELSE <<s[1], NL>> \o Join(Tail(s))

\* Array.from(new Set(s)): first occurrences, in insertion order
RECURSIVE SetOrder(_)
SetOrder(s) == IF Len(s) = 0 THEN <<>>
               ELSE LET init == SetOrder(SubSeq(s, 1, Len(s) - 1))
                        last == s[Len(s)]
                    IN IF last \in Range(init) THEN init ELSE Append(init, last)

\* a filter with the test inverted: facts.filter((f) => f === fact)
FilterOutInverted(s, fact) == SelectSeq(s, LAMBDA f : f = fact)

\* Array.prototype.filter((f) => f !== fact)
RECURSIVE FilterOut(_, _)
FilterOut(s, fact) == IF Len(s) = 0 THEN <<>>
                      ELSE IF s[1] = fact THEN FilterOut(Tail(s), fact)
                      ELSE <<s[1]>> \o FilterOut(Tail(s), fact)

\* String.prototype.split('\n') of a text given as its line texts and the
\* separators between them
RECURSIVE Split(_)
Split(t) == IF Len(t) = 0 THEN <<"">>
            ELSE IF t[1] = NL THEN <<"">> \o Split(Tail(t))
            ELSE IF Len(t) = 1 THEN <<t[1]>>
            ELSE <<t[1]>> \o Split(SubSeq(t, 3, Len(t)))

\* String.prototype.trim of the lines the backend answers with
Trim(l) == CASE l = " a " -> "a" [] l = " " -> "" [] OTHER -> l

\* resp.text.split('\n').map((fact) => fact.trim()).filter((fact) => fact)
ExtractedFacts(text) ==
  SelectSeq([i \in 1..Len(Split(text)) |-> Trim(Split(text)[i])], LAMBDA f : f # "")

\* JSON.stringify / JSON.parse of a string array
Stringify(list) == [present |-> TRUE, json |-> list]
Parse(blob) == blob.json

(***************************** embeddings **********************************)

\* The embedding model is a deterministic function of the text; a vector is
\* named by the text it embeds.
Embed(text) == [of |-> text]

\* Cosine similarity of the embeddings of two texts, in hundredths: a table
\* that unit vectors can have ("b" lies between "a" and "c").
Sim(x, y) == IF x = y THEN 100
             ELSE IF {x, y} = {"a", "b"} THEN 95
             ELSE IF {x, y} = {"b", "c"} THEN 95
             ELSE IF {x, y} = {"a", "d"} THEN 90
             ELSE IF {x, y} = {"a", "c"} THEN 85
             ELSE IF {x, y} = {"b", "d"} THEN 80
             ELSE IF {x, y} = {"c", "d"} THEN 75
             ELSE 50

Score(v, w) == Sim(v.of, w.of)

(***************************** vector index ********************************)

Namespace(kind, user) == <<kind, user>>

InNamespace(index, ns) == {r \in index : r.namespace = ns}

\* an insert in place of the upsert: a vector whose id is taken is kept
VInsert(index, id, ns, values) ==
  IF \E r \in index : r.id = id /\ r.namespace = ns THEN index
  ELSE index \cup {[id |-> id, namespace |-> ns, values |-> values]}

\* Vectorize.upsert([{id, namespace, values}]): the vector of that id in that
\* namespace is replaced
VUpsert(index, id, ns, values) ==
  {r \in index : ~(r.id = id /\ r.namespace = ns)}
    \cup {[id |-> id, namespace |-> ns, values |-> values]}

\* deleteByIds takes ids only: the source passes no namespace
VDeleteByIds(index, ids) == {r \in index : r.id \notin ids}

\* The answers the index may give: the topK vectors of the namespace,
\* highest score first, ties in any order.
VQuery(index, ns, v, topK) ==
  LET c == InNamespace(index, ns)
      n == Min(Cardinality(c), topK)
      ranked == {s \in [1..n -> c] :
                   /\ \A i, j \in 1..n :
                        i < j => /\ s[i] # s[j]
                                 /\ Score(s[i].values, v) >= Score(s[j].values, v)
                   /\ \A r \in c : (\A i \in 1..n : s[i] # r) =>
                        \A i \in 1..n : Score(s[i].values, v) >= Score(r.values, v)}
  IN {[i \in 1..n |-> [id |-> s[i].id, score |-> Score(s[i].values, v)]] : s \in ranked}

(***************************** message store *******************************)

LastTime(rows) == IF Len(rows) = 0 THEN 0 ELSE rows[Len(rows)].created_at

\* INSERT INTO messages (user_id, message, role) VALUES (?, ?, ?) RETURNING id
Insert(rows, user, text, role, ts) ==
  Append(rows, [id |-> Len(rows) + 1, user_id |-> user, message |-> text,
                role |-> role, created_at |-> ts])

\* SELECT message FROM messages WHERE user_id = ? ORDER BY created_at DESC LIMIT ?
\* (rows of one second in any order)
SelectRecent(rows, user, limit) ==
  LET c == {i \in 1..Len(rows) : rows[i].user_id = user}
      n == Min(Cardinality(c), limit)
      ranked == {s \in [1..n -> c] :
                   /\ \A i, j \in 1..n :
                        i < j => /\ s[i] # s[j]
                                 /\ rows[s[i]].created_at >= rows[s[j]].created_at
                   /\ \A r \in c : (\A i \in 1..n : s[i] # r) =>
                        \A i \in 1..n : rows[s[i]].created_at >= rows[r].created_at}
  IN {[i \in 1..n |-> rows[s[i]].message] : s \in ranked}

\* SELECT message FROM messages WHERE id IN (...), in rowid order
RECURSIVE SelectByIds(_, _)
SelectByIds(rows, ids) ==
  IF Len(rows) = 0 THEN <<>>
  ELSE IF ToStr(rows[1].id) \in Range(ids)
       THEN <<rows[1].message>> \o SelectByIds(Tail(rows), ids)
       ELSE SelectByIds(Tail(rows), ids)

(***************************** calls ***************************************)

Stores == [messages |-> messages, vectorIndex |-> vectorIndex, kv |-> kv]

NoGen == [called |-> FALSE, query |-> "", context |-> <<>>,
          userPreferences |-> "", facts |-> <<>>, text |-> NoResult]

\* A caller slot with no call: every local at its initial value.
Idle ==
  [op |-> "idle", impl |-> "llmp", user |-> "u1", arg |-> "", prefs |-> NoPrefs,
   limit |-> 0, topK |-> 0, askedLimit |-> 0, askedTopK |-> 0, pc |-> "idle", status |-> "idle", result |-> NoResult,
   userMessageId |-> 0, emb |-> NoVec, previousMessages |-> <<>>,
   messageIds |-> <<>>, relevantTexts |-> <<>>, factsArray |-> <<>>,
   matches |-> <<>>, rmFact |-> "", rmCaller |-> "none", rmMatches |-> <<>>,
   facts |-> <<>>, gen |-> NoGen, response |-> <<>>, lines |-> <<>>, line |-> 0,
   updates |-> <<>>, caught |-> FALSE, trace |-> <<>>, failed |-> {},
   pre |-> [messages |-> <<>>, vectorIndex |-> {},
            kv |-> [u \in Users |-> NoBlob]]]

At(p, pc) == calls[p].status = "running" /\ calls[p].pc = pc

Entry(c) == [op |-> c.op, user |-> c.user, arg |-> c.arg, status |-> c.status]

Continue(p, c) == calls' = [calls EXCEPT ![p] = c] /\ hist' = hist

Complete(p, c) == calls' = [calls EXCEPT ![p] = c] /\ hist' = Append(hist, Entry(c))

\* the call goes on, or ends if c has returned or thrown
Go(p, c) == IF c.status = "running" THEN Continue(p, c) ELSE Complete(p, c)

\* a request that was answered / a request that failed
Requested(c, label) == [c EXCEPT !.trace = Append(@, label)]
Failed(c, label) == [c EXCEPT !.trace = Append(@, label), !.failed = @ \cup {label}]

\* an error leaves the call; extractAndUpdateFacts catches it, logs it and
\* returns
Thrown(c) ==
  IF c.op = "extractAndUpdateFacts"
  THEN [c EXCEPT !.status = "returned", !.pc = "done", !.caught = TRUE]
  ELSE [c EXCEPT !.status = "threw", !.pc = "done"]
Returned(c, r) == [c EXCEPT !.status = "returned", !.pc = "done", !.result = r]

Init ==
  /\ messages = <<>>
  /\ vectorIndex = {}
  /\ kv = [u \in Users |-> NoBlob]
  /\ calls = [p \in Procs |-> Idle]
  /\ hist = <<>>

(***************************** starting a call *****************************)

NoneRunning == \A q \in Procs : calls[q].status # "running"

NewCall(op, user, arg, pc) ==
  [Idle EXCEPT !.op = op, !.user = user, !.arg = arg, !.pc = pc,
               !.status = "running", !.pre = Stores]

StartHandleQuery(p, user, query, prefs, limit, impl) ==
  /\ calls' = [calls EXCEPT ![p] =
       [NewCall("handleQuery", user, query, "saveMessage")
          EXCEPT !.prefs = prefs, !.limit = limit, !.impl = impl]]
  /\ UNCHANGED <<messages, vectorIndex, kv, hist>>

StartUpdateFacts(p, user, newFact) ==
  /\ calls' = [calls EXCEPT ![p] = NewCall("updateFacts", user, newFact, "uf_embed")]
  /\ UNCHANGED <<messages, vectorIndex, kv, hist>>

StartRemoveFact(p, user, fact) ==
  /\ calls' = [calls EXCEPT ![p] =
       [NewCall("removeFact", user, fact, "rf_getFacts")
          EXCEPT !.rmFact = fact, !.rmCaller = "top"]]
  /\ UNCHANGED <<messages, vectorIndex, kv, hist>>

\* rag.retrieveRelevantTexts(queryEmbedding, topK) called on its own, with
\* the embedding of some text
StartRetrieveRelevantTexts(p, user, text, topK) ==
  /\ calls' = [calls EXCEPT ![p] =
       [NewCall("retrieveRelevantTexts", user, text, "retrieveQuery")
          EXCEPT !.emb = Embed(text), !.topK = topK]]
  /\ UNCHANGED <<messages, vectorIndex, kv, hist>>

\* rag.storeEmbedding(id, embedding) called on its own
StartStoreEmbedding(p, user, id, text) ==
  /\ calls' = [calls EXCEPT ![p] =
       [NewCall("storeEmbedding", user, id, "storeEmbedding")
          EXCEPT !.emb = Embed(text)]]
  /\ UNCHANGED <<messages, vectorIndex, kv, hist>>

\* facts.extractAndUpdateFacts(text)
StartExtractAndUpdateFacts(p, user, text) ==
  /\ calls' = [calls EXCEPT ![p] =
       NewCall("extractAndUpdateFacts", user, text, "ex_generate")]
  /\ UNCHANGED <<messages, vectorIndex, kv, hist>>

\* facts.getFacts() called on its own
StartGetFacts(p, user) ==
  /\ calls' = [calls EXCEPT ![p] = NewCall("getFacts", user, "", "getFacts")]
  /\ UNCHANGED <<messages, vectorIndex, kv, hist>>

(***************************** LLMP.handleQuery ****************************)

\* saveMessage without the check of resp.id: an insert that answers with no
\* row lets the call go on with no id
SaveMessageUnchecked(p) ==
  /\ At(p, "saveMessage")
  /\ LET c == calls[p] IN
     \/ \E ts \in {LastTime(messages), LastTime(messages) + 1} :
          /\ messages' = Insert(messages, c.user, c.arg, "user", ts)
          /\ Continue(p, [Requested(c, "insert") EXCEPT
                            !.userMessageId = Len(messages) + 1,
                            !.pc = "generateEmbeddings"])
     \/ /\ messages' = messages
        /\ Complete(p, Thrown(Failed(c, "insert")))
     \/ /\ messages' = messages
        /\ Continue(p, [Failed(c, "insert") EXCEPT
                          !.failed = @ \cup {"noId"}, !.pc = "generateEmbeddings"])
  /\ UNCHANGED <<vectorIndex, kv>>

\* saveMessage answering with the id of a row that is not yet stored when
\* the retrievals run
SaveMessageUnpersisted(p) ==
  /\ At(p, "saveMessage")
  /\ LET c == calls[p] IN
     \/ /\ messages' = messages
        /\ Continue(p, [Requested(c, "insert") EXCEPT
                          !.userMessageId = Len(messages) + 1,
                          !.pc = "generateEmbeddings"])
     \/ /\ messages' = messages
        /\ Complete(p, Thrown(Failed(c, "insert")))
     \/ /\ messages' = messages
        /\ Complete(p, Thrown([Failed(c, "insert") EXCEPT
                                 !.failed = @ \cup {"noId"}]))
  /\ UNCHANGED <<vectorIndex, kv>>

\* memory.saveMessage(query, "user"): the insert answers with the new row's
\* id, throws, or answers with no row (resp is null), and then saveMessage
\* throws 'Failed to save message.'
SaveMessage(p) ==
  /\ At(p, "saveMessage")
  /\ LET c == calls[p] IN
     \/ \E ts \in {LastTime(messages), LastTime(messages) + 1} :
          /\ messages' = Insert(messages, c.user, c.arg, "user", ts)
          /\ Continue(p, [Requested(c, "insert") EXCEPT
                            !.userMessageId = Len(messages) + 1,
                            !.pc = "generateEmbeddings"])
     \/ /\ messages' = messages
        /\ Complete(p, Thrown(Failed(c, "insert")))
     \/ /\ messages' = messages
        /\ Complete(p, Thrown([Failed(c, "insert") EXCEPT
                                 !.failed = @ \cup {"noId"}]))
  /\ UNCHANGED <<vectorIndex, kv>>

\* embeddings.generateEmbeddings([query])
GenerateEmbeddings(p) ==
  /\ At(p, "generateEmbeddings")
  /\ LET c == calls[p] IN
     \/ Continue(p, [Requested(c, "embed") EXCEPT
                       !.emb = Embed(c.arg), !.pc = "storeEmbedding"])
     \/ Complete(p, Thrown(Failed(c, "embed")))
  /\ UNCHANGED <<messages, vectorIndex, kv>>

\* the vector keyed by the message's text instead of its id
VectorIdOfText(c) == c.arg

\* userMessageId.toString()
VectorId(c) == ToStr(c.userMessageId)

\* the message vector written to the fact namespace
MessagesNsOfFacts(c) == Namespace("facts", c.user)

\* namespace: `messages:${this.userId}`
MessagesNs(c) == Namespace("messages", c.user)

\* storeEmbedding going on to the relevance query, the recency fetch skipped
StoreEmbeddingThenRetrieve(p) ==
  /\ At(p, "storeEmbedding")
  /\ LET c == calls[p] IN
     \/ /\ vectorIndex' = VUpsert(vectorIndex, VectorId(c), MessagesNs(c), c.emb)
        /\ Continue(p, [Requested(c, "upsert") EXCEPT !.pc = "retrieveQuery"])
     \/ /\ vectorIndex' = vectorIndex
        /\ Complete(p, Thrown(Failed(c, "upsert")))
  /\ UNCHANGED <<messages, kv>>

\* the id argument of storeEmbedding
StoreId(c) == IF c.op = "storeEmbedding" THEN c.arg ELSE VectorId(c)

\* where storeEmbedding hands control: to handleQuery, or back to its caller
AfterStore(c) ==
  IF c.op = "storeEmbedding" THEN Returned(c, NoResult)
  ELSE [c EXCEPT !.pc = "getPreviousMessages"]

\* rag.storeEmbedding(id, embedding); handleQuery calls it with
\* (userMessageId.toString(), userMessageEmbedding)
StoreEmbedding(p) ==
  /\ At(p, "storeEmbedding")
  /\ LET c == calls[p] IN
     \/ /\ vectorIndex' = VUpsert(vectorIndex, StoreId(c), MessagesNs(c), c.emb)
        /\ Go(p, AfterStore(Requested(c, "upsert")))
     \/ /\ vectorIndex' = vectorIndex
        /\ Complete(p, Thrown(Failed(c, "upsert")))
  /\ UNCHANGED <<messages, kv>>

\* Memory's constructor: messageLimit = 10 unless one is given
MemoryMessageLimit(given) == IF given = NoLimit THEN DefaultMessageLimit ELSE given

\* the limit as the literal 10, whatever the Memory's messageLimit
RecentLimitLiteral(c) == 10

\* the limit handleQuery asks for: memory.messageLimit, or the literal 10
RecentLimit(c) == IF c.impl = "index" THEN 10 ELSE c.limit

\* getPreviousMessages rethrowing a failed select
GetPreviousMessagesRethrow(p) ==
  /\ At(p, "getPreviousMessages")
  /\ LET c == calls[p] IN
     \/ \E res \in SelectRecent(messages, c.user, RecentLimit(c)) :
          Continue(p, [Requested(c, "selectRecent") EXCEPT
                         !.previousMessages = res, !.pc = "retrieveQuery"])
     \/ Complete(p, Thrown(Failed(c, "selectRecent")))
  /\ UNCHANGED <<messages, vectorIndex, kv>>

\* memory.getPreviousMessages(limit): a failed select is an empty list
GetPreviousMessages(p) ==
  /\ At(p, "getPreviousMessages")
  /\ LET c == [calls[p] EXCEPT !.askedLimit = RecentLimit(calls[p])] IN
     \/ \E res \in SelectRecent(messages, c.user, RecentLimit(c)) :
          Continue(p, [Requested(c, "selectRecent") EXCEPT
                         !.previousMessages = res, !.pc = "retrieveQuery"])
     \/ Continue(p, [Failed(c, "selectRecent") EXCEPT
                       !.previousMessages = <<>>, !.pc = "retrieveQuery"])
  /\ UNCHANGED <<messages, vectorIndex, kv>>

\* the topK argument of retrieveRelevantTexts: handleQuery passes 5
RetrieveTopK(c) == IF c.op = "handleQuery" THEN TopK ELSE c.topK

\* where retrieveRelevantTexts hands its texts: to handleQuery, or back to
\* its caller
AfterRetrieve(c) ==
  IF c.op = "retrieveRelevantTexts" THEN Returned(c, NoResult)
  ELSE [c EXCEPT !.pc = "getFacts"]

\* rag.retrieveRelevantTexts, first await: the index query
RetrieveQuery(p) ==
  /\ At(p, "retrieveQuery")
  /\ LET c == [calls[p] EXCEPT !.askedTopK = RetrieveTopK(calls[p])] IN
     \/ \E m \in VQuery(vectorIndex, MessagesNs(c), c.emb, RetrieveTopK(c)) :
          LET ids == [i \in 1..Len(m) |-> m[i].id] IN
          Go(p, IF Len(ids) = 0
                THEN AfterRetrieve([Requested(c, "query") EXCEPT !.messageIds = ids])
                ELSE [Requested(c, "query") EXCEPT
                        !.messageIds = ids, !.pc = "retrieveSelect"])
     \/ Go(p, AfterRetrieve(Failed(c, "query")))
  /\ UNCHANGED <<messages, vectorIndex, kv>>

\* retrieveRelevantTexts letting a failed lookup out of its try block
RetrieveSelectRethrow(p) ==
  /\ At(p, "retrieveSelect")
  /\ LET c == calls[p] IN
     \/ Go(p, AfterRetrieve([Requested(c, "selectByIds") EXCEPT
                               !.relevantTexts = SelectByIds(messages, c.messageIds)]))
     \/ Complete(p, Thrown(Failed(c, "selectByIds")))
  /\ UNCHANGED <<messages, vectorIndex, kv>>

\* rag.retrieveRelevantTexts, second await: the messages of those ids
RetrieveSelect(p) ==
  /\ At(p, "retrieveSelect")
  /\ LET c == calls[p] IN
     \/ Go(p, AfterRetrieve([Requested(c, "selectByIds") EXCEPT
                               !.relevantTexts = SelectByIds(messages, c.messageIds)]))
     \/ Go(p, AfterRetrieve(Failed(c, "selectByIds")))
  /\ UNCHANGED <<messages, vectorIndex, kv>>

\* what getFacts returns for a blob read that answered
FactsOf(blob) == IF blob.present THEN Parse(blob) ELSE <<>>

\* where getFacts hands its list: to handleQuery, or back to its caller
AfterGetFacts(c) ==
  IF c.op = "getFacts" THEN Returned(c, NoResult)
  ELSE [c EXCEPT !.pc = "generateResponse"]

\* getFacts letting a failed read out of its try block
GetFactsRethrow(p) ==
  /\ At(p, "getFacts")
  /\ LET c == calls[p] IN
     \/ Go(p, AfterGetFacts([Requested(c, "kvGet") EXCEPT
                               !.factsArray = FactsOf(kv[c.user])]))
     \/ Complete(p, Thrown(Failed(c, "kvGet")))
  /\ UNCHANGED <<messages, vectorIndex, kv>>

\* facts.getFacts(), in handleQuery or on its own: the blob read and its
\* JSON.parse are in one try block, whose catch returns the empty list
GetFacts(p) ==
  /\ At(p, "getFacts")
  /\ LET c == calls[p] IN
     \/ Go(p, AfterGetFacts([Requested(c, "kvGet") EXCEPT
                               !.factsArray = FactsOf(kv[c.user])]))
     \/ Go(p, AfterGetFacts([Failed(c, "kvGet") EXCEPT !.factsArray = <<>>]))
  /\ UNCHANGED <<messages, vectorIndex, kv>>

\* the context argument of chat.generateResponse
FullContext(c) ==
  IF c.impl = "index"
  THEN Join(c.previousMessages) \o <<NL>> \o Join(c.relevantTexts)
  ELSE Join(SetOrder(c.previousMessages \o c.relevantTexts))

\* the preferences handed on as they came, undefined included
PrefsArgAsGiven(c) == c.prefs

\* the userPreferences argument
PrefsArg(c) == IF c.impl = "index" THEN c.prefs
               ELSE IF c.prefs = NoPrefs THEN "" ELSE c.prefs

GenArgs(c) == [called |-> TRUE, query |-> c.arg, context |-> FullContext(c),
               userPreferences |-> PrefsArg(c), facts |-> Join(c.factsArray),
               text |-> NoResult]

\* generateText has answered with text: generateResponse returns resp.text
\* and handleQuery returns that
Answered(c, text) == Returned([Requested(c, "generate") EXCEPT !.gen.text = text], text)

\* generateResponse asking the backend again after a failure
GenerateResponseRetry(p) ==
  /\ At(p, "generateResponse")
  /\ LET c == [calls[p] EXCEPT !.gen = GenArgs(calls[p])] IN
     \/ \E text \in Replies : Complete(p, Answered(c, text))
     \/ /\ Len(c.trace) < 9
        /\ Continue(p, Failed(c, "generate"))
     \/ Complete(p, Thrown(Failed(c, "generate")))
  /\ UNCHANGED <<messages, vectorIndex, kv>>

\* generateResponse undoing the query's row and vector when the backend fails
GenerateResponseCompensate(p) ==
  /\ At(p, "generateResponse")
  /\ LET c == [calls[p] EXCEPT !.gen = GenArgs(calls[p])] IN
     \/ /\ \E text \in Replies : Complete(p, Answered(c, text))
        /\ UNCHANGED <<messages, vectorIndex>>
     \/ /\ messages' = SelectSeq(messages, LAMBDA r : r.id # c.userMessageId)
        /\ vectorIndex' = VDeleteByIds(vectorIndex, {VectorId(c)})
        /\ Complete(p, Thrown(Failed(c, "generate")))
  /\ UNCHANGED kv

\* chat.generateResponse(query, context, preferences, facts): one
\* generateText request, whose text is returned as it is; a failure is
\* rethrown as 'Failed to generate AI response.'
GenerateResponse(p) ==
  /\ At(p, "generateResponse")
  /\ LET c == [calls[p] EXCEPT !.gen = GenArgs(calls[p])] IN
     \/ \E text \in Replies : Complete(p, Answered(c, text))
     \/ Complete(p, Thrown(Failed(c, "generate")))
  /\ UNCHANGED <<messages, vectorIndex, kv>>

(***************************** CloudflareKVFacts ***************************)

FactsNs(c) == Namespace("facts", c.user)

\* the argument of updateFacts: the caller's, or the line the loop of
\* extractAndUpdateFacts is at
NewFact(c) == IF c.op = "extractAndUpdateFacts" THEN c.lines[c.line] ELSE c.arg

\* extractAndUpdateFacts: for (const fact of extractedFacts) await
\* this.updateFacts(fact): the next line's call, or the return after the last
NextLine(c) ==
  IF c.line < Len(c.lines)
  THEN [c EXCEPT !.line = @ + 1, !.updates = Append(@, c.lines[c.line + 1]),
                 !.pc = "uf_embed"]
  ELSE Returned(c, NoResult)

\* where an updateFacts that has finished hands control
AfterUpdate(c) ==
  IF c.op = "extractAndUpdateFacts" THEN NextLine(c) ELSE Returned(c, NoResult)

\* extractAndUpdateFacts: the generateText request and the lines of its text
ExtractGenerate(p) ==
  /\ At(p, "ex_generate")
  /\ LET c == calls[p] IN
     \/ \E text \in ResponseTexts :
          Go(p, NextLine([Requested(c, "generate") EXCEPT
                            !.response = text, !.lines = ExtractedFacts(text)]))
     \/ Complete(p, Thrown(Failed(c, "generate")))
  /\ UNCHANGED <<messages, vectorIndex, kv>>

\* updateFacts: embeddings.generateEmbeddings([newFact])
UpdateFactsEmbed(p) ==
  /\ At(p, "uf_embed")
  /\ LET c == calls[p] IN
     \/ Continue(p, [Requested(c, "embed") EXCEPT
                       !.emb = Embed(NewFact(c)), !.pc = "uf_query"])
     \/ Complete(p, Thrown(Failed(c, "embed")))
  /\ UNCHANGED <<messages, vectorIndex, kv>>

\* the length test off by one: resp.matches.length > 1
ExistsOffByOne(m) == Len(m) > 1 /\ m[1].score > Threshold

\* resp.matches && resp.matches.length > 0 && resp.matches[0].score > 0.9
Exists(m) == Len(m) > 0 /\ m[1].score > Threshold

\* updateFacts: the nearest neighbour of the new fact; a neighbour above the
\* threshold is removed first (removeFact(resp.matches[0].id))
UpdateFactsQuery(p) ==
  /\ At(p, "uf_query")
  /\ LET c == calls[p] IN
     \/ \E m \in VQuery(vectorIndex, FactsNs(c), c.emb, 1) :
          Continue(p, IF Exists(m)
                      THEN [Requested(c, "query") EXCEPT
                              !.matches = m, !.rmFact = m[1].id,
                              !.rmCaller = "updateFacts", !.pc = "rf_getFacts"]
                      ELSE [Requested(c, "query") EXCEPT
                              !.matches = m, !.pc = "uf_getFacts"])
     \/ Complete(p, Thrown(Failed(c, "query")))
  /\ UNCHANGED <<messages, vectorIndex, kv>>

\* updateFacts: let facts = await this.getFacts()
UpdateFactsGetFacts(p) ==
  /\ At(p, "uf_getFacts")
  /\ LET c == calls[p] IN
     \/ Continue(p, [Requested(c, "kvGet") EXCEPT
                       !.facts = FactsOf(kv[c.user]), !.pc = "uf_put"])
     \/ Continue(p, [Failed(c, "kvGet") EXCEPT !.facts = <<>>, !.pc = "uf_put"])
  /\ UNCHANGED <<messages, vectorIndex, kv>>

\* the new fact put at the head of the list: facts.unshift(newFact)
UpdateFactsPutFirst(p) ==
  /\ At(p, "uf_put")
  /\ LET c == [calls[p] EXCEPT !.facts = <<NewFact(calls[p])>> \o @] IN
     \/ /\ kv' = [kv EXCEPT ![c.user] = Stringify(c.facts)]
        /\ Continue(p, [Requested(c, "kvPut") EXCEPT !.pc = "uf_upsert"])
     \/ /\ kv' = kv
        /\ Complete(p, Thrown(Failed(c, "kvPut")))
  /\ UNCHANGED <<messages, vectorIndex>>

\* updateFacts: facts.push(newFact); kv.put(key, JSON.stringify(facts))
UpdateFactsPut(p) ==
  /\ At(p, "uf_put")
  /\ LET c == [calls[p] EXCEPT !.facts = Append(@, NewFact(calls[p]))] IN
     \/ /\ kv' = [kv EXCEPT ![c.user] = Stringify(c.facts)]
        /\ Continue(p, [Requested(c, "kvPut") EXCEPT !.pc = "uf_upsert"])
     \/ /\ kv' = kv
        /\ Complete(p, Thrown(Failed(c, "kvPut")))
  /\ UNCHANGED <<messages, vectorIndex>>

\* updateFacts looking at the namespace again before its upsert, and giving
\* up when a neighbour above the threshold has appeared
UpdateFactsUpsertGuarded(p) ==
  /\ At(p, "uf_upsert")
  /\ LET c == calls[p] IN
     \/ /\ \A m \in VQuery(vectorIndex, FactsNs(c), c.emb, 1) : ~Exists(m)
        /\ vectorIndex' = VUpsert(vectorIndex, NewFact(c), FactsNs(c), c.emb)
        /\ Go(p, AfterUpdate(Requested(c, "upsert")))
     \/ /\ \E m \in VQuery(vectorIndex, FactsNs(c), c.emb, 1) : Exists(m)
        /\ vectorIndex' = vectorIndex
        /\ Go(p, AfterUpdate(c))
     \/ /\ vectorIndex' = vectorIndex
        /\ Complete(p, Thrown(Failed(c, "upsert")))
  /\ UNCHANGED <<messages, kv>>

\* updateFacts logging a failed upsert and returning
UpdateFactsUpsertSwallow(p) ==
  /\ At(p, "uf_upsert")
  /\ LET c == calls[p] IN
     \/ /\ vectorIndex' = VUpsert(vectorIndex, NewFact(c), FactsNs(c), c.emb)
        /\ Go(p, AfterUpdate(Requested(c, "upsert")))
     \/ /\ vectorIndex' = vectorIndex
        /\ Go(p, AfterUpdate(Failed(c, "upsert")))
  /\ UNCHANGED <<messages, kv>>

\* updateFacts: vectorIndex.upsert([{id: newFact, namespace, values}])
UpdateFactsUpsert(p) ==
  /\ At(p, "uf_upsert")
  /\ LET c == calls[p] IN
     \/ /\ vectorIndex' = VUpsert(vectorIndex, NewFact(c), FactsNs(c), c.emb)
        /\ Go(p, AfterUpdate(Requested(c, "upsert")))
     \/ /\ vectorIndex' = vectorIndex
        /\ Complete(p, Thrown(Failed(c, "upsert")))
  /\ UNCHANGED <<messages, kv>>

\* removeFact: let facts = await this.getFacts()
RemoveFactGetFacts(p) ==
  /\ At(p, "rf_getFacts")
  /\ LET c == calls[p] IN
     \/ Continue(p, [Requested(c, "kvGet") EXCEPT
                       !.facts = FactsOf(kv[c.user]), !.pc = "rf_put"])
     \/ Continue(p, [Failed(c, "kvGet") EXCEPT !.facts = <<>>, !.pc = "rf_put"])
  /\ UNCHANGED <<messages, vectorIndex, kv>>

\* removeFact: facts = facts.filter((f) => f !== fact); kv.put(...)
RemoveFactPut(p) ==
  /\ At(p, "rf_put")
  /\ LET c == [calls[p] EXCEPT !.facts = FilterOut(@, calls[p].rmFact)] IN
     \/ /\ kv' = [kv EXCEPT ![c.user] = Stringify(c.facts)]
        /\ Continue(p, [Requested(c, "kvPut") EXCEPT !.pc = "rf_embed"])
     \/ /\ kv' = kv
        /\ Complete(p, Thrown(Failed(c, "kvPut")))
  /\ UNCHANGED <<messages, vectorIndex>>

\* removeFact: embeddings.generateEmbeddings([fact]); the vector is used by
\* the next step only
RemoveFactEmbed(p) ==
  /\ At(p, "rf_embed")
  /\ LET c == calls[p] IN
     \/ Continue(p, [Requested(c, "embed") EXCEPT !.pc = "rf_query"])
     \/ Complete(p, Thrown(Failed(c, "embed")))
  /\ UNCHANGED <<messages, vectorIndex, kv>>

\* removeFact: the nearest neighbour of the re-embedded text
RemoveFactQuery(p) ==
  /\ At(p, "rf_query")
  /\ LET c == calls[p] IN
     \/ \E m \in VQuery(vectorIndex, FactsNs(c), Embed(c.rmFact), 1) :
          Continue(p, [Requested(c, "query") EXCEPT
                         !.rmMatches = m, !.pc = "rf_delete"])
     \/ Complete(p, Thrown(Failed(c, "query")))
  /\ UNCHANGED <<messages, vectorIndex, kv>>

\* where a removeFact that has finished hands control: to its caller
\* updateFacts, or back to the user
AfterRemove(c) ==
  IF c.rmCaller = "updateFacts" THEN [c EXCEPT !.pc = "uf_getFacts"]
  ELSE Returned(c, NoResult)

\* removeFact returning quietly when the namespace has no match
RemoveFactDeleteIfAny(p) ==
  /\ At(p, "rf_delete")
  /\ LET c == calls[p] IN
     IF Len(c.rmMatches) = 0
     THEN /\ vectorIndex' = vectorIndex
          /\ Go(p, AfterRemove(c))
     ELSE \/ /\ vectorIndex' = VDeleteByIds(vectorIndex, {c.rmMatches[1].id})
             /\ Go(p, AfterRemove(Requested(c, "delete")))
          \/ /\ vectorIndex' = vectorIndex
             /\ Complete(p, Thrown(Failed(c, "delete")))
  /\ UNCHANGED <<messages, kv>>

\* removeFact: const match = embedding.matches[0]; deleteByIds([match.id]).
\* With no match, match.id throws before any request.
RemoveFactDelete(p) ==
  /\ At(p, "rf_delete")
  /\ LET c == calls[p] IN
     IF Len(c.rmMatches) = 0
     THEN /\ vectorIndex' = vectorIndex
          /\ Complete(p, Thrown([c EXCEPT !.failed = @ \cup {"noMatch"}]))
     ELSE \/ /\ vectorIndex' = VDeleteByIds(vectorIndex, {c.rmMatches[1].id})
             /\ LET d == AfterRemove(Requested(c, "delete")) IN
                IF d.status = "running" THEN Continue(p, d) ELSE Complete(p, d)
          \/ /\ vectorIndex' = vectorIndex
             /\ Complete(p, Thrown(Failed(c, "delete")))
  /\ UNCHANGED <<messages, kv>>

(***************************** specifications ******************************)

HandleQueryStep(p) ==
  \/ SaveMessage(p)
  \/ GenerateEmbeddings(p)
  \/ StoreEmbedding(p)
  \/ GetPreviousMessages(p)
  \/ RetrieveQuery(p)
  \/ RetrieveSelect(p)
  \/ GetFacts(p)
  \/ GenerateResponse(p)

FactsStep(p) ==
  \/ UpdateFactsEmbed(p)
  \/ UpdateFactsQuery(p)
  \/ UpdateFactsGetFacts(p)
  \/ UpdateFactsPut(p)
  \/ UpdateFactsUpsert(p)
  \/ RemoveFactGetFacts(p)
  \/ RemoveFactPut(p)
  \/ RemoveFactEmbed(p)
  \/ RemoveFactQuery(p)
  \/ RemoveFactDelete(p)

\* One worker, one user, one call after another: queries (the LLMP of
\* llmp.ts) and fact updates and removals.
StartSeq ==
  /\ NoneRunning
  /\ Len(hist) < MaxCalls
  /\ \/ \E q \in QueryTexts, prefs \in {NoPrefs, "metric"}, limit \in MessageLimits :
          StartHandleQuery(1, "u1", q, prefs, limit, "llmp")
     \/ \E f \in FactTexts : StartUpdateFacts(1, "u1", f)
     \/ \E f \in FactTexts : StartRemoveFact(1, "u1", f)

Next == StartSeq \/ \E p \in Procs : HandleQueryStep(p) \/ FactsStep(p)

Spec == Init /\ [][Next]_vars

\* The fact memory alone: one user's updateFacts and removeFact calls, one
\* after another.
StartFacts ==
  /\ NoneRunning
  /\ Len(hist) < MaxFactCalls
  /\ \/ \E f \in FactTexts : StartUpdateFacts(1, "u1", f)
     \/ \E f \in FactTexts : StartRemoveFact(1, "u1", f)
     \/ StartGetFacts(1, "u1")

NextFacts == StartFacts \/ \E p \in Procs : FactsStep(p) \/ GetFacts(p)

SpecFacts == Init /\ [][NextFacts]_vars

\* The LLMP class of index.ts (userPreferences is a required string there),
\* one query after another.
StartIndex ==
  /\ NoneRunning
  /\ Len(hist) < MaxCalls
  /\ \E q \in QueryTexts, prefs \in {"", "metric"} :
       StartHandleQuery(1, "u1", q, prefs, DefaultMessageLimit, "index")

NextIndex == StartIndex \/ \E p \in Procs : HandleQueryStep(p)

SpecIndex == Init /\ [][NextIndex]_vars

\* extractAndUpdateFacts calls of one user, one after another.
StartExtract ==
  /\ NoneRunning
  /\ Len(hist) < MaxExtractCalls
  /\ StartExtractAndUpdateFacts(1, "u1", "t")

NextExtract == StartExtract \/ \E p \in Procs : ExtractGenerate(p) \/ FactsStep(p)

SpecExtract == Init /\ [][NextExtract]_vars

\* Two users on the same stores, one call after another: each user's queries
\* (u1 and u2 ask different texts), and updateFacts and removeFact of a text
\* both users use.
UserQueries(u) == IF u = "u1" THEN {"a", "c"} ELSE {"b"}

StartUsers ==
  /\ NoneRunning
  /\ Len(hist) < MaxUserCalls
  /\ \E u \in Users :
       \/ \E q \in UserQueries(u), limit \in MessageLimits :
            StartHandleQuery(1, u, q, NoPrefs, limit, "llmp")
       \/ StartUpdateFacts(1, u, "a")
       \/ StartRemoveFact(1, u, "a")

NextUsers == StartUsers \/ \E p \in Procs : HandleQueryStep(p) \/ FactsStep(p)

SpecUsers == Init /\ [][NextUsers]_vars

\* Two callers of one user's fact memory at once: each starts updateFacts
\* whenever it is not in a call, and their requests interleave.
Running == {q \in Procs : calls[q].status = "running"}

StartRace(p) ==
  /\ calls[p].status # "running"
  /\ Len(hist) + Cardinality(Running) < MaxRaceCalls
  /\ \E f \in RaceTexts : StartUpdateFacts(p, "u1", f)

NextRace == \E p \in Procs : StartRace(p) \/ FactsStep(p)

SpecRace == Init /\ [][NextRace]_vars

\* Two users' queries, one after another, each through an LLMP whose Memory
\* was built with no messageLimit or with messageLimit 1.
StartQueries ==
  /\ NoneRunning
  /\ Len(hist) < MaxQueryCalls
  /\ \E u \in Users : \E q \in UserQueries(u), given \in {NoLimit, 1} :
       StartHandleQuery(1, u, q, NoPrefs, MemoryMessageLimit(given), "llmp")

NextQueries == StartQueries \/ \E p \in Procs : HandleQueryStep(p)

SpecQueries == Init /\ [][NextQueries]_vars

\* The CloudflareRAG class alone: storeEmbedding and retrieveRelevantTexts
\* called one after another over a message table of zero to two rows.
RagTables ==
  {<<>>,
   Insert(<<>>, "u1", "a", "user", 1),
   Insert(Insert(<<>>, "u1", "a", "user", 1), "u1", "b", "user", 1)}

InitRag ==
  /\ messages \in RagTables
  /\ vectorIndex = {}
  /\ kv = [u \in Users |-> NoBlob]
  /\ calls = [p \in Procs |-> Idle]
  /\ hist = <<>>

StartRag ==
  /\ NoneRunning
  /\ Len(hist) < MaxRagCalls
  /\ \/ \E id \in RagIds, t \in QueryTexts : StartStoreEmbedding(1, "u1", id, t)
     \/ \E t \in QueryTexts, topK \in {1, 2, TopK} :
          StartRetrieveRelevantTexts(1, "u1", t, topK)

NextRag ==
  StartRag \/ \E p \in Procs : StoreEmbedding(p) \/ RetrieveQuery(p) \/ RetrieveSelect(p)

SpecRag == InitRag /\ [][NextRag]_vars

(***************************** observations ********************************)

\* the durable fact list of a user, and the ids of the facts namespace
FactList(u) == FactsOf(kv[u])
FactVectorIds(index, u) == {r.id : r \in InNamespace(index, Namespace("facts", u))}

\* a fact is live: in the durable list and in the facts namespace
Live(u, f) == f \in Range(FactList(u)) /\ f \in FactVectorIds(vectorIndex, u)

Count(x, s) == Cardinality({i \in 1..Len(s) : s[i] = x})

IsPrefix(s, t) == Len(s) <= Len(t) /\ \A i \in 1..Len(s) : s[i] = t[i]

Updated(f) == [op |-> "updateFacts", user |-> "u1", arg |-> f, status |-> "returned"]

\* from the empty store updateFacts(A) and then updateFacts(B) have returned,
\* and nothing else has been called
AddedBoth(A, B) == hist = <<Updated(A), Updated(B)>> /\ NoneRunning

(***************************** C1 ******************************************)

C2_NonDedupBothLive ==
  \A A, B \in FactTexts :
    (Sim(A, B) < Threshold /\ AddedBoth(A, B))
      => Live("u1", A) /\ Live("u1", B)

(***************************** C3 ******************************************)

\* the call of slot p is a removeFact(f) by the user that has returned, and
\* f was live when it started
RemovedLive(p, f) ==
  LET c == calls[p] IN
  /\ c.op = "removeFact" /\ c.status = "returned" /\ c.arg = f
  /\ f \in Range(FactsOf(c.pre.kv[c.user]))
  /\ f \in FactVectorIds(c.pre.vectorIndex, c.user)

\* C3: after removeFact(f) on a live fact f has returned, f is neither in
\* the durable list (so getFacts does not return it) nor in the facts
\* namespace, and no nearest-neighbour query of that namespace answers id f.
C3_RemoveFactRemoves ==
  \A p \in Procs, f \in FactTexts :
    RemovedLive(p, f) =>
      LET u == calls[p].user IN
      /\ f \notin Range(FactList(u))
      /\ f \notin FactVectorIds(vectorIndex, u)
      /\ \A t \in FactTexts, k \in 1..TopK :
           \A m \in VQuery(vectorIndex, Namespace("facts", u), Embed(t), k) :
             \A i \in 1..Len(m) : m[i].id # f

\* a live fact removed while another fact stays live
C3_Witness ==
  /\ RemovedLive(1, "a")
  /\ Live("u1", "c")
  /\ ~Live("u1", "a")

(***************************** C4 ******************************************)

\* the requests of one handleQuery, in the order of the source; the lookup
\* of the relevant ids is skipped when the index query gave none
StepOrder == <<"insert", "embed", "upsert", "selectRecent", "query",
               "selectByIds", "kvGet", "generate">>
StepOrderNoLookup == <<"insert", "embed", "upsert", "selectRecent", "query",
                       "kvGet", "generate">>

\* C4: the requests of a handleQuery call are issued one at a time in the
\* fixed order insert, embed, upsert, recent messages, relevance query (and
\* lookup), facts, generation: what has been issued so far is a prefix of
\* that order, the embedding is asked for only with the message id in hand,
\* the upsert only with the embedding, and the generation call only after
\* all the others.
C4_StepsInOrder ==
  \A p \in Procs :
    LET c == calls[p] IN
    c.op = "handleQuery" =>
      /\ IsPrefix(c.trace, StepOrder) \/ IsPrefix(c.trace, StepOrderNoLookup)
      /\ "embed" \in Range(c.trace) => c.userMessageId # 0
      /\ "upsert" \in Range(c.trace) => c.emb = Embed(c.arg)
      /\ c.gen.called =>
           /\ {"selectRecent", "query", "kvGet", "generate"} \subseteq Range(c.trace)
           /\ {"insert", "embed", "upsert"} \subseteq (Range(c.trace) \ c.failed)

\* a handleQuery that went through all eight requests and returned
C4_Witness ==
  /\ calls[1].op = "handleQuery"
  /\ calls[1].status = "returned"
  /\ calls[1].trace = StepOrder
  /\ calls[1].failed = {}

(***************************** C5 ******************************************)

MessageVectorIds(index, u) ==
  {r.id : r \in InNamespace(index, Namespace("messages", u))}

\* C5: a handleQuery(query) of user u that has returned has added exactly
\* one row to the message store, (u, query, user), and exactly one vector to
\* messages:{u}, whose id is that row's id as a string.
C5_OneRowOneVector ==
  \A p \in Procs :
    LET c == calls[p] IN
    (c.op = "handleQuery" /\ c.status = "returned") =>
      /\ Len(messages) = Len(c.pre.messages) + 1
      /\ SubSeq(messages, 1, Len(c.pre.messages)) = c.pre.messages
      /\ LET row == messages[Len(messages)] IN
         /\ row.user_id = c.user
         /\ row.message = c.arg
         /\ row.role = "user"
         /\ MessageVectorIds(vectorIndex, c.user)
              \ MessageVectorIds(c.pre.vectorIndex, c.user) = {ToStr(row.id)}
         /\ InNamespace(c.pre.vectorIndex, Namespace("messages", c.user))
              \subseteq vectorIndex
         /\ [id |-> ToStr(row.id), namespace |-> Namespace("messages", c.user),
             values |-> Embed(c.arg)] \in vectorIndex

\* the second query of a user returned: row 2 and vector "2" are new
C5_Witness ==
  /\ calls[1].op = "handleQuery"
  /\ calls[1].status = "returned"
  /\ Len(calls[1].pre.messages) = 1
  /\ MessageVectorIds(vectorIndex, "u1") = {"1", "2"}

(***************************** C6 ******************************************)

\* C6: across a handleQuery call, in flight or finished, no message of role
\* ai is inserted, no vector but the query's own is upserted and none is
\* deleted, and the durable fact list and the facts namespace are unchanged.
C6_NoReplyNoFactWrites ==
  \A p \in Procs :
    LET c == calls[p] IN
    c.op = "handleQuery" =>
      /\ \A i \in 1..Len(messages) : i > Len(c.pre.messages) => messages[i].role = "user"
      /\ Len(messages) <= Len(c.pre.messages) + 1
      /\ c.pre.vectorIndex \subseteq vectorIndex
      /\ vectorIndex \ c.pre.vectorIndex \subseteq
           {[id |-> ToStr(c.userMessageId), namespace |-> Namespace("messages", c.user),
             values |-> Embed(c.arg)]}
      /\ kv = c.pre.kv
      /\ InNamespace(vectorIndex, Namespace("facts", c.user))
           = InNamespace(c.pre.vectorIndex, Namespace("facts", c.user))

\* a query answered with a fact in the prompt: the fact memory was read and
\* is as it was
C6_Witness ==
  /\ calls[1].op = "handleQuery"
  /\ calls[1].status = "returned"
  /\ calls[1].gen.facts = <<"c">>
  /\ FactList("u1") = <<"c">>
  /\ Live("u1", "c")

(***************************** C7 ******************************************)

\* C7: the context handed to the generation call holds each message text at
\* most once, also a text that both getPreviousMessages and
\* retrieveRelevantTexts returned.
C7_ContextNoDuplicates ==
  \A p \in Procs :
    LET c == calls[p] IN
    c.gen.called => \A t \in QueryTexts : Count(t, c.gen.context) <= 1

(***************************** C8 ******************************************)

Fatal == {"insert", "embed", "upsert", "generate"}

\* C8: a finished handleQuery has failed exactly when the insert, the
\* embedding, the upsert or the generation call failed; when only
\* enrichment reads failed it returns the generated text, each failed
\* enrichment being an empty sequence in the prompt.
C8_FailsIffFatalStepFails ==
  \A p \in Procs :
    LET c == calls[p] IN
    (c.op = "handleQuery" /\ c.pc = "done") =>
      /\ c.status = "threw" <=> c.failed \cap Fatal # {}
      /\ c.status = "returned" =>
           /\ c.result \in Replies
           /\ "selectRecent" \in c.failed => c.previousMessages = <<>>
           /\ ("query" \in c.failed \/ "selectByIds" \in c.failed) => c.relevantTexts = <<>>
           /\ "kvGet" \in c.failed => c.factsArray = <<>> /\ c.gen.facts = <<>>
           /\ c.gen.context = Join(SetOrder(c.previousMessages \o c.relevantTexts))

\* every enrichment read failed, with messages and facts in the stores, and
\* the query was answered from an empty context
C8_Witness ==
  /\ calls[1].op = "handleQuery"
  /\ calls[1].status = "returned"
  /\ calls[1].failed = {"selectRecent", "query", "kvGet"}
  /\ calls[1].gen.context = <<>>
  /\ FactList("u1") # <<>>

(***************************** C9 ******************************************)

\* C9: when the generation backend fails, handleQuery throws, returns no
\* text, and the backend has been asked exactly once; it is one failed call.
C9_GenerationFailureIsFinal ==
  \A p \in Procs :
    LET c == calls[p] IN
    (c.op = "handleQuery" /\ "generate" \in c.failed) =>
      /\ c.status = "threw"
      /\ c.result = NoResult
      /\ Count("generate", c.trace) = 1
      /\ Count("insert", c.trace) = 1
      /\ hist[Len(hist)] = Entry(c)

\* the backend failed after every other step had succeeded
C9_Witness ==
  /\ calls[1].op = "handleQuery"
  /\ calls[1].failed = {"generate"}
  /\ calls[1].status = "threw"

(***************************** C10 *****************************************)

\* C10: when the insert answers with no id, saveMessage throws and
\* handleQuery fails at once: the insert is not asked again, no embedding is
\* computed, no vector upserted and no generation call made.
C10_NoIdStopsTheCall ==
  \A p \in Procs :
    LET c == calls[p] IN
    (c.op = "handleQuery" /\ "noId" \in c.failed) =>
      /\ c.status = "threw"
      /\ c.trace = <<"insert">>
      /\ c.emb = NoVec
      /\ ~c.gen.called
      /\ messages = c.pre.messages
      /\ vectorIndex = c.pre.vectorIndex

\* an insert without an id, in a store that holds an earlier message
C10_Witness ==
  /\ calls[1].op = "handleQuery"
  /\ "noId" \in calls[1].failed
  /\ calls[1].status = "threw"
  /\ Len(messages) = 1

(***************************** C11 *****************************************)

\* C11: getFacts() never raises. A getFacts call that has ended has returned:
\* the strings of the stored blob in their stored order when the read
\* answered with a blob, and the empty sequence when the user has no blob or
\* when the read (or the parsing of what was read) failed.
C11_GetFactsNeverRaises ==
  \A p \in Procs :
    LET c == calls[p] IN
    (c.op = "getFacts" /\ c.status # "running") =>
      /\ c.status = "returned"
      /\ c.factsArray =
           IF "kvGet" \in c.failed \/ ~kv[c.user].present THEN <<>>
           ELSE kv[c.user].json

\* getFacts has returned a stored list of two facts, in their stored order
C11_Witness ==
  \E p \in Procs :
    /\ calls[p].op = "getFacts" /\ calls[p].status = "returned"
    /\ Len(calls[p].factsArray) = 2
    /\ calls[p].factsArray = kv[calls[p].user].json

(***************************** C12 *****************************************)

\* the rows of the message table that the ids of a retrieval resolve to
Resolved(c) ==
  {i \in 1..Len(messages) : ToStr(messages[i].id) \in Range(c.messageIds)}

\* C12: retrieveRelevantTexts(queryEmbedding, topK) never raises and returns
\* at most topK texts. A call that has ended has returned; it asked the index
\* for at most topK ids; its texts are the messages of the rows those ids
\* resolve to, each once, and an id that resolves to no row is dropped; when
\* the index query or the lookup failed it returned the empty sequence.
C12_RetrieveNeverRaises ==
  \A p \in Procs :
    LET c == calls[p] IN
    (c.op = "retrieveRelevantTexts" /\ c.status # "running") =>
      /\ c.status = "returned"
      /\ Len(c.messageIds) <= c.topK
      /\ Len(c.relevantTexts) <= c.topK
      /\ IF c.failed # {} THEN c.relevantTexts = <<>>
         ELSE /\ Len(c.relevantTexts) = Cardinality(Resolved(c))
              /\ \A t \in QueryTexts :
                   Count(t, c.relevantTexts) =
                     Cardinality({i \in Resolved(c) : messages[i].message = t})

\* a retrieval has returned a text although one of the ids the index gave
\* resolves to no message
C12_Witness ==
  \E p \in Procs :
    LET c == calls[p] IN
    /\ c.op = "retrieveRelevantTexts" /\ c.status = "returned"
    /\ Len(c.relevantTexts) >= 1
    /\ \E k \in 1..Len(c.messageIds) :
         \A i \in 1..Len(messages) : ToStr(messages[i].id) # c.messageIds[k]

(***************************** C13 *****************************************)

\* the vector of an id in a user's message namespace, as a set (empty, or
\* one vector)
MessageVectorsOf(index, u, id) ==
  {r.values : r \in {x \in InNamespace(index, Namespace("messages", u)) : x.id = id}}

\* C13: storeEmbedding is idempotent. After storeEmbedding(id, v) has
\* returned the namespace messages:{userId} holds exactly one entry for id,
\* with value v, whatever it held for id before (nothing, v, or another
\* vector), and every other entry is as it was; stored over (id, v) it
\* leaves the index as it was.
C13_StoreEmbeddingIdempotent ==
  \A p \in Procs :
    LET c == calls[p] IN
    (c.op = "storeEmbedding" /\ c.status = "returned") =>
      /\ MessageVectorsOf(vectorIndex, c.user, c.arg) = {c.emb}
      /\ Cardinality({r \in vectorIndex : r.id = c.arg
                         /\ r.namespace = Namespace("messages", c.user)}) = 1
      /\ {r \in vectorIndex : r.id # c.arg} = {r \in c.pre.vectorIndex : r.id # c.arg}
      /\ MessageVectorsOf(c.pre.vectorIndex, c.user, c.arg) = {c.emb}
           => vectorIndex = c.pre.vectorIndex

\* an id that held another vector has been stored again
C13_Witness ==
  \E p \in Procs :
    LET c == calls[p] IN
    /\ c.op = "storeEmbedding" /\ c.status = "returned"
    /\ MessageVectorsOf(c.pre.vectorIndex, c.user, c.arg) = {Embed("a")}
    /\ c.emb = Embed("b")
    /\ \E i \in 1..Len(hist) - 1 :
         /\ hist[i] = [op |-> "storeEmbedding", user |-> c.user, arg |-> c.arg,
                       status |-> "returned"]
         /\ hist[i + 1] = hist[i]

(***************************** C14 *****************************************)

\* C14: extractAndUpdateFacts(text) calls updateFacts exactly once for each
\* non-empty trimmed line of the backend's answer, in line order and one
\* after another; and when the answer has two lines of similarity below 0.9
\* both are live afterwards. Stated of a call in which no updateFacts threw.
C14_ExtractUpdatesEachLine ==
  \A p \in Procs :
    LET c == calls[p] IN
    (/\ c.op = "extractAndUpdateFacts" /\ c.status = "returned"
     /\ ~c.caught) =>
      /\ c.updates = ExtractedFacts(c.response)
      /\ (Len(c.lines) = 2 /\ Sim(c.lines[1], c.lines[2]) < Threshold) =>
           Live(c.user, c.lines[1]) /\ Live(c.user, c.lines[2])

(***************************** C15 *****************************************)

RowsOf(rows, u) == SelectSeq(rows, LAMBDA r : r.user_id = u)

TextsOf(rows, u) == {rows[i].message : i \in {j \in 1..Len(rows) : rows[j].user_id = u}}

\* C15: user isolation. A call run for user u leaves the message rows, the
\* fact blob and the vectors of both namespaces of every other user v as they
\* were when it started, and the message texts and facts it has read are
\* u's own; also when u and v use the same fact text.
C15_UserIsolation ==
  \A p \in Procs : \A v \in Users :
    LET c == calls[p] IN
    (c.status # "idle" /\ v # c.user) =>
      /\ RowsOf(messages, v) = RowsOf(c.pre.messages, v)
      /\ kv[v] = c.pre.kv[v]
      /\ \A kind \in {"messages", "facts"} :
           InNamespace(vectorIndex, Namespace(kind, v))
             = InNamespace(c.pre.vectorIndex, Namespace(kind, v))
      /\ Range(c.previousMessages) \cup Range(c.relevantTexts)
           \subseteq TextsOf(messages, c.user)
      /\ Range(c.factsArray) \subseteq Range(FactsOf(c.pre.kv[c.user]))

(***************************** C16 *****************************************)

\* the two callers have both returned from updateFacts(A) and updateFacts(B)
\* on the store that was empty, and nothing else has been called
BothUpdated(A, B) ==
  /\ Len(hist) = 2
  /\ calls[1].op = "updateFacts" /\ calls[1].status = "returned" /\ calls[1].arg = A
  /\ calls[2].op = "updateFacts" /\ calls[2].status = "returned" /\ calls[2].arg = B

\* C16: the known race. Two updateFacts of one user with similar facts
\* (similarity above 0.9): when each call's query was answered before the
\* other's upsert, so that both saw no neighbour, both calls go through and
\* both facts end up with a vector; nothing stops either call.
C16_RaceKeepsBothVectors ==
  \A A, B \in RaceTexts :
    (/\ A # B /\ Sim(A, B) > Threshold
     /\ BothUpdated(A, B)
     /\ calls[1].matches = <<>> /\ calls[2].matches = <<>>) =>
      {A, B} \subseteq FactVectorIds(vectorIndex, "u1")

\* both callers saw no neighbour, both returned, both vectors are there
C16_Witness ==
  /\ BothUpdated("a", "b")
  /\ calls[1].matches = <<>> /\ calls[2].matches = <<>>
  /\ calls[1].failed = {} /\ calls[2].failed = {}
  /\ FactVectorIds(vectorIndex, "u1") = {"a", "b"}

(***************************** C17 *****************************************)

\* C17: no locking is needed for the durable list. Two updateFacts of one
\* user with dissimilar facts A and B (similarity below 0.9) that have both
\* returned, with no request of either failed: the durable list holds both A
\* and B, however the blob reads and writes interleaved.
C17_ConcurrentUpdatesBothListed ==
  \A A, B \in RaceTexts :
    (/\ A # B /\ Sim(A, B) < Threshold
     /\ BothUpdated(A, B)
     /\ calls[1].failed = {} /\ calls[2].failed = {}) =>
      {A, B} \subseteq Range(FactList("u1"))

(***************************** C18 *****************************************)

\* every call so far was an updateFacts or a removeFact that returned
AllReturned ==
  /\ NoneRunning
  /\ \A i \in 1..Len(hist) :
       hist[i].op \in {"updateFacts", "removeFact"} /\ hist[i].status = "returned"

\* C18: store/index consistency. After any sequence of updateFacts and
\* removeFact calls of one user, run one after another and all returned
\* (whatever their argument texts, live or not), the vector ids of
\* facts:{userId} are exactly the strings of the durable list. Stated of the
\* states whose last call had no failed request.
C18_ListMatchesNamespace ==
  (AllReturned /\ calls[1].failed = {}) =>
    FactVectorIds(vectorIndex, "u1") = Range(FactList("u1"))

(***************************** C19 *****************************************)

\* C19: a handleQuery that has returned made exactly one generation request,
\* with the query, the context built from the two reads, the preferences
\* given (the empty string when none were given) and the facts joined by
\* newlines, and its result is the text that request answered with.
C19_OneGenerationReturnedAsIs ==
  \A p \in Procs :
    LET c == calls[p] IN
    (c.op = "handleQuery" /\ c.status = "returned") =>
      /\ Count("generate", c.trace) = 1
      /\ c.gen.called
      /\ c.gen.query = c.arg
      /\ c.gen.context = Join(SetOrder(c.previousMessages \o c.relevantTexts))
      /\ c.gen.userPreferences = (IF c.prefs = NoPrefs THEN "" ELSE c.prefs)
      /\ c.gen.facts = Join(c.factsArray)
      /\ c.result = c.gen.text
      /\ c.result \in Replies

\* a query without preferences, with a stored fact, has returned the reply
C19_Witness ==
  \E p \in Procs :
    LET c == calls[p] IN
    /\ c.op = "handleQuery" /\ c.status = "returned"
    /\ c.prefs = NoPrefs /\ c.gen.userPreferences = ""
    /\ Len(c.factsArray) = 1 /\ c.gen.facts = c.factsArray
    /\ c.result = "r2"

(***************************** C20 *****************************************)

UserRows(u) == {i \in 1..Len(messages) : messages[i].user_id = u}

\* texts is a list of messages of distinct rows of user u, latest created_at
\* first, and no row of u left out is later than a row taken
MostRecentFirst(texts, u) ==
  \E s \in [1..Len(texts) -> UserRows(u)] :
    /\ \A i \in 1..Len(texts) : messages[s[i]].message = texts[i]
    /\ \A i, j \in 1..Len(texts) :
         i < j => /\ s[i] # s[j]
                  /\ messages[s[i]].created_at >= messages[s[j]].created_at
    /\ \A r \in UserRows(u) : (\A i \in 1..Len(texts) : s[i] # r) =>
         \A i \in 1..Len(texts) : messages[s[i]].created_at >= messages[r].created_at

UpdateReturned(p) ==
  /\ calls[p].op = "updateFacts" /\ calls[p].status = "returned"
  /\ calls[p].user = "u1"

\* the facts other than newFact that were in the list, or in the namespace,
\* when the call started and are no longer there
RemovedFromList(c) ==
  {g \in FactTexts \ {c.arg} :
     g \in Range(FactsOf(c.pre.kv[c.user])) /\ g \notin Range(FactList(c.user))}

RemovedFromNamespace(c) ==
  {g \in FactTexts \ {c.arg} :
     g \in FactVectorIds(c.pre.vectorIndex, c.user)
       /\ g \notin FactVectorIds(vectorIndex, c.user)}

\* the neighbour the query of the call answered with, if its score is
\* strictly above 0.9 (as a set: empty, or that one fact)
NeighbourAbove(c) ==
  IF Len(c.matches) > 0 /\ c.matches[1].score > 90 THEN {c.matches[1].id} ELSE {}

\* C21: an updateFacts(newFact) that has returned has removed an existing
\* fact if and only if the namespace answered with a nearest neighbour of
\* score strictly above 0.9, and then it has removed that neighbour and no
\* other fact: a neighbour of score 0.9 or lower is kept, in the list and
\* in the namespace.
C21_RemovesOnlyNeighbourAboveThreshold ==
  \A p \in Procs :
    LET c == calls[p] IN
    UpdateReturned(p) =>
      /\ Count("delete", c.trace) = Cardinality(NeighbourAbove(c))
      /\ RemovedFromNamespace(c) = NeighbourAbove(c) \ {c.arg}
      /\ RemovedFromList(c) \subseteq NeighbourAbove(c)

(***************************** C22 *****************************************)

\* the requests of an updateFacts in their order, with and without the
\* removal of a neighbour
UpdateOrder(c) ==
  IF NeighbourAbove(c) # {}
  THEN <<"embed", "query", "kvGet", "kvPut", "embed", "query", "delete",
         "kvGet", "kvPut", "upsert">>
  ELSE <<"embed", "query", "kvGet", "kvPut", "upsert">>

\* C22: replacement is delete-then-insert. In an updateFacts call the
\* requests come in the order: removal of the neighbour from the list, then
\* from the namespace, then the write of the list with newFact appended, then
\* the upsert of the new vector. While the call is between the removal and
\* its list write the neighbour is in neither store; before the upsert the
\* list already ends with newFact; on return newFact is the last element of
\* the list and has a vector, and every other entry was in the list before.
C22_DeleteThenInsert ==
  \A p \in Procs :
    LET c == calls[p]
        list == FactList("u1")
        ids == FactVectorIds(vectorIndex, "u1")
    IN
    (c.op = "updateFacts" /\ c.user = "u1") =>
      /\ IsPrefix(c.trace, UpdateOrder(c))
      /\ (c.status = "running" /\ c.pc \in {"uf_getFacts", "uf_put"}) =>
           \A n \in NeighbourAbove(c) : n \notin Range(list) /\ n \notin ids
      /\ (c.status = "running" /\ c.pc = "uf_upsert") =>
           /\ list # <<>> /\ list[Len(list)] = c.arg
           /\ ids = FactVectorIds(c.pre.vectorIndex, "u1") \ NeighbourAbove(c)
      /\ c.status = "returned" =>
           /\ list # <<>> /\ list[Len(list)] = c.arg
           /\ c.arg \in ids
           /\ \A i \in 1..(Len(list) - 1) :
                /\ list[i] \in Range(FactsOf(c.pre.kv["u1"]))
                /\ list[i] \notin NeighbourAbove(c)

\* a fact has replaced its neighbour while another fact stayed in the list
C22_Witness ==
  \E p \in Procs :
    /\ UpdateReturned(p)
    /\ calls[p].arg = "b" /\ NeighbourAbove(calls[p]) = {"a"}
    /\ FactsOf(calls[p].pre.kv["u1"]) = <<"a", "d">>
    /\ FactList("u1") = <<"d", "b">>
    /\ FactVectorIds(vectorIndex, "u1") = {"d", "b"}

(***************************** C23 *****************************************)

\* C23: the vector removeFact(f) deletes is the vector of id f. A removeFact
\* call of the user that has returned, with no failed request, has taken no
\* vector but that of f out of the namespace, and when f was not live at its
\* start it has left the durable list and the namespace as they were.
C23_RemoveFactDeletesOwnVector ==
  \A p \in Procs :
    LET c == calls[p]
        listBefore == FactsOf(c.pre.kv[c.user])
        idsBefore == FactVectorIds(c.pre.vectorIndex, c.user)
    IN
    (c.op = "removeFact" /\ c.status = "returned" /\ c.failed = {}) =>
      /\ idsBefore \ FactVectorIds(vectorIndex, c.user) \subseteq {c.arg}
      /\ ~(c.arg \in Range(listBefore) /\ c.arg \in idsBefore) =>
           /\ FactList(c.user) = listBefore
           /\ FactVectorIds(vectorIndex, c.user) = idsBefore

(***************************** C24 *****************************************)

\* every call so far was an updateFacts that returned
AllUpdatesReturned ==
  /\ NoneRunning
  /\ \A i \in 1..Len(hist) : hist[i].op = "updateFacts" /\ hist[i].status = "returned"

\* C24: after any sequence of updateFacts calls of one user, run one after
\* another and all returned (three or more facts included), no two facts of
\* the durable list have similarity above 0.9.
C24_NoSimilarPairInList ==
  AllUpdatesReturned =>
    \A x, y \in Range(FactList("u1")) : x # y => Sim(x, y) <= 90

(***************************** C25 *****************************************)

\* C25: after any sequence of updateFacts and removeFact calls of one user,
\* run one after another, the durable list holds no string more than once.
\* Stated of the states in which every call has returned and the last call
\* had no failed request.
C25_NoDuplicateStrings ==
  (AllReturned /\ calls[1].failed = {}) =>
    \A f \in FactTexts : Count(f, FactList("u1")) <= 1

(***************************** C26 *****************************************)

\* the facts that are both in a list blob and in the user's namespace
LiveSet(blob, index, u) == Range(FactsOf(blob)) \cap FactVectorIds(index, u)

\* C26: updateFacts is idempotent on a live text. An updateFacts(f) that has
\* returned, started in a state in which f was live, has left the set of live
\* facts and the set of vector ids of the namespace as they were, and f is in
\* the list exactly once, at its end.
C26_UpdateLiveFactIdempotent ==
  \A p \in Procs :
    LET c == calls[p]
        list == FactList("u1")
    IN
    (UpdateReturned(p) /\ c.arg \in LiveSet(c.pre.kv["u1"], c.pre.vectorIndex, "u1")) =>
      /\ LiveSet(kv["u1"], vectorIndex, "u1")
           = LiveSet(c.pre.kv["u1"], c.pre.vectorIndex, "u1")
      /\ FactVectorIds(vectorIndex, "u1") = FactVectorIds(c.pre.vectorIndex, "u1")
      /\ Count(c.arg, list) = 1
      /\ list[Len(list)] = c.arg

(***************************** C27 *****************************************)

NoMatchAnswered(p) ==
  LET c == calls[p] IN
  /\ c.op = "removeFact" /\ c.status # "running"
  /\ c.trace = <<"kvGet", "kvPut", "embed", "query">>
  /\ c.failed \subseteq {"kvGet", "noMatch"}
  /\ c.rmMatches = <<>>

\* C28: when the namespace answers the query of removeFact(f) with no match
\* the call raises an error; the list was written without f before that
\* (every other entry kept, when the list read answered) and stays so, and
\* the namespace is as it was.
C28_NoMatchRaisesAfterListWrite ==
  \A p \in Procs :
    LET c == calls[p] IN
    NoMatchAnswered(p) =>
      /\ c.status = "threw"
      /\ kv[c.user].present
      /\ c.arg \notin Range(FactList(c.user))
      /\ "kvGet" \notin c.failed =>
           FactList(c.user) = SelectSeq(FactsOf(c.pre.kv[c.user]), LAMBDA g : g # c.arg)
      /\ vectorIndex = c.pre.vectorIndex

\* removeFact of a listed fact without a vector, on an empty namespace, has
\* thrown, and the fact is off the list
C28_Witness ==
  \E p \in Procs :
    /\ NoMatchAnswered(p)
    /\ calls[p].status = "threw"
    /\ calls[p].arg \in Range(FactsOf(calls[p].pre.kv["u1"]))
    /\ calls[p].arg \notin Range(FactList("u1"))

(***************************** C29 *****************************************)

\* C29: extractAndUpdateFacts never raises. A call that has ended has
\* returned; when the backend request failed no updateFacts was called and
\* the stores are as they were; when the updateFacts of line i failed the
\* lines after i were never passed to updateFacts and the facts of the lines
\* before i are live. Stated of calls with one failed request, and of the
\* earlier lines whose text is not that of line i.
C29_ExtractStopsAtFirstFailure ==
  \A p \in Procs :
    LET c == calls[p] IN
    (c.op = "extractAndUpdateFacts" /\ c.status # "running") =>
      /\ c.status = "returned"
      /\ "generate" \in c.failed =>
           /\ c.updates = <<>>
           /\ kv = c.pre.kv /\ vectorIndex = c.pre.vectorIndex
      /\ (c.caught /\ "generate" \notin c.failed /\ Cardinality(c.failed) = 1) =>
           /\ c.updates = SubSeq(c.lines, 1, c.line)
           /\ \A j \in 1..(c.line - 1) :
                c.lines[j] # c.lines[c.line] => Live(c.user, c.lines[j])

(***************************** C30 *****************************************)

\* the row the insert of call c created
InsertedRow(c) ==
  {i \in 1..Len(messages) : /\ messages[i].id = c.userMessageId
                            /\ messages[i].user_id = c.user
                            /\ messages[i].message = c.arg
                            /\ messages[i].role = "user"}

\* C30: handleQuery compensates nothing. When it has failed after its
\* insert succeeded, the inserted user row is still in the message store;
\* when the failure was at generation the query's vector is still in
\* messages:{userId}; when it was at the embedding or at the upsert the row
\* has no vector.
C30_NoCompensationOnFailure ==
  \A p \in Procs :
    LET c == calls[p] IN
    (c.op = "handleQuery" /\ c.status = "threw" /\ "insert" \notin c.failed) =>
      /\ c.failed \cap {"embed", "upsert", "generate"} # {}
      /\ InsertedRow(c) # {}
      /\ "generate" \in c.failed =>
           [id |-> VectorId(c), namespace |-> MessagesNs(c),
            values |-> Embed(c.arg)] \in vectorIndex
      /\ c.failed \cap {"embed", "upsert"} # {} =>
           VectorId(c) \notin MessageVectorIds(vectorIndex, c.user)

\* an upsert failed: the query's row is stored and has no vector
C30_Witness ==
  /\ calls[1].op = "handleQuery"
  /\ calls[1].status = "threw"
  /\ calls[1].failed = {"upsert"}
  /\ InsertedRow(calls[1]) # {}
  /\ VectorId(calls[1]) \notin MessageVectorIds(vectorIndex, calls[1].user)

\* a generation failed: the query's row and its vector are both stored
C30_WitnessGeneration ==
  /\ calls[1].op = "handleQuery"
  /\ calls[1].status = "threw"
  /\ "generate" \in calls[1].failed
  /\ InsertedRow(calls[1]) # {}
  /\ VectorId(calls[1]) \in MessageVectorIds(vectorIndex, calls[1].user)

(***************************** C31 *****************************************)

\* C31: the query is stored and its vector upserted before either retrieval
\* runs, so when no request of a handleQuery(query) failed and its message
\* limit is at least 1, the context handed to the generation call contains
\* the text of the query.
C31_ContextContainsQuery ==
  \A p \in Procs :
    LET c == calls[p] IN
    (c.op = "handleQuery" /\ c.gen.called /\ c.failed = {} /\ c.limit >= 1) =>
      /\ c.gen.query = c.arg
      /\ Count(c.arg, c.gen.context) >= 1
      /\ c.arg \in Range(c.previousMessages) \cup Range(c.relevantTexts)

\* limit 1 and two rows at one created_at: the recency read answered with
\* the older row, and the query's text reached the context by the
\* similarity read
C31_Witness ==
  /\ calls[1].op = "handleQuery"
  /\ calls[1].gen.called
  /\ calls[1].failed = {}
  /\ calls[1].limit = 1
  /\ calls[1].arg \notin Range(calls[1].previousMessages)
  /\ calls[1].previousMessages # <<>>
  /\ Count(calls[1].arg, calls[1].gen.context) >= 1

====
